---- MODULE Spec2Model ----
(***************************************************************************)
(* log-archive-tool: a run of main() archives the files of a log directory *)
(* into a timestamped tar.gz in the output directory, appends one line to  *)
(* the audit log and applies the retention policy.  The model is one       *)
(* deployment (the log directory and its output directory, "archives"      *)
(* inside it) over several runs, with the clock advancing and log files    *)
(* appearing between the runs.                                             *)
(***************************************************************************)
EXTENDS Integers, Sequences, FiniteSets, TLC

----------------------------------------------------------------------------
(* Bounds of the model *)

MaxRuns == 2            \* lines in the audit log: no run starts beyond them
MaxDays == 2            \* days the clock may advance

----------------------------------------------------------------------------
(* Program constants.  A file name is a record: its base, its extension    *)
(* and, for the names build_archive_name produces, the second it was built *)
(* from.                                                                   *)

Name(b, e) == [base |-> b, ts |-> 0, ext |-> e]

ARCHIVE_PREFIX == "logs_archive_"
ARCHIVE_EXT == ".tar.gz"
DEFAULT_OUTPUT_DIR_NAME == "archives"
AUDIT_LOG_NAME == Name("archive", ".log")       \* "archive.log"
SecondsPerDay == 86400

----------------------------------------------------------------------------
(* Paths.  A path is the sequence of its names from the filesystem root.   *)
(* An optional argument (None or a value) is the empty set or a singleton. *)

The(opt) == CHOOSE x \in opt : TRUE

\* build_archive_name: ARCHIVE_PREFIX + strftime('%Y%m%d_%H%M%S') + ARCHIVE_EXT
build_archive_name(now) == [base |-> ARCHIVE_PREFIX, ts |-> now, ext |-> ARCHIVE_EXT]

LOG_DIR == <<Name("logs", "")>>
MISSING_DIR == <<Name("missing", "")>>

\* resolve_output_dir: output_dir or log_directory / "archives"
resolve_output_dir(log_directory, output_dir) ==
    IF output_dir # {} THEN The(output_dir)
    ELSE Append(log_directory, Name(DEFAULT_OUTPUT_DIR_NAME, ""))

\* path.relative_to(other) succeeds: other is path or an ancestor of it
IsRelativeTo(path, other) ==
    /\ Len(other) <= Len(path)
    /\ SubSeq(path, 1, Len(other)) = other

\* path.relative_to(root)
relative_to(path, root) == SubSeq(path, Len(root) + 1, Len(path))

----------------------------------------------------------------------------
(* Glob patterns.  A pattern is a sequence of segment patterns: a literal  *)
(* name, "*" (any name) or "*.ext" (any name with that extension).         *)

Lit(b, e) == [kind |-> "lit", base |-> b, ext |-> e]
Star == [kind |-> "star", base |-> "", ext |-> ""]
AnyExt(e) == [kind |-> "ext", base |-> "", ext |-> e]

\* fnmatch of one path segment against one pattern segment
fnmatch(name, seg) ==
    CASE seg.kind = "star" -> TRUE
      [] seg.kind = "ext" -> name.ext = seg.ext
      [] OTHER -> name.ts = 0 /\ name.base = seg.base /\ name.ext = seg.ext

\* PurePath.match with a relative pattern: the pattern is matched from the right
match(rel, pat) ==
    /\ Len(pat) <= Len(rel)
    /\ \A i \in 1..Len(pat) : fnmatch(rel[Len(rel) - Len(pat) + i], pat[i])

\* should_exclude with the built-in exclusions consulted last, after the
\* patterns have had their say (a mutation of should_exclude)
should_exclude_patterns_first(path, root, builtin_exclusions, include_patterns, exclude_patterns) ==
    LET rel == relative_to(path, root) IN
    IF \E i \in 1..Len(exclude_patterns) : match(rel, exclude_patterns[i]) THEN TRUE
    ELSE IF include_patterns # <<>>
         THEN ~ \E i \in 1..Len(include_patterns) : match(rel, include_patterns[i])
         ELSE \E excl \in builtin_exclusions : IsRelativeTo(path, excl)

\* should_exclude: built-in exclusions first, then the exclude patterns, then
\* the include patterns (when any are given)
should_exclude(path, root, builtin_exclusions, include_patterns, exclude_patterns) ==
    IF \E excl \in builtin_exclusions : IsRelativeTo(path, excl) THEN TRUE
    ELSE LET rel == relative_to(path, root) IN
         IF \E i \in 1..Len(exclude_patterns) : match(rel, exclude_patterns[i]) THEN TRUE
         ELSE IF include_patterns # <<>>
              THEN ~ \E i \in 1..Len(include_patterns) : match(rel, include_patterns[i])
              ELSE FALSE

----------------------------------------------------------------------------
(* State *)

VARIABLES
    userFiles,      \* the log files on disk (paths), written by other programs
    outDirExists,   \* the output directory exists
    archives,       \* archive files in the output directory: second of the
                    \* name |-> [mtime, members, complete]
    auditLog,       \* the lines of archive.log, oldest first (<<>>: no file)
    clock,          \* the wall clock, in seconds
    last            \* what the run of main() that just ended did (NoRun once
                    \* the clock or the log files have moved on)

vars == <<userFiles, outDirExists, archives, auditLog, clock, last>>

\* the log files other programs may write
AppLog == Append(LOG_DIR, Name("app", ".log"))
SysLog == LOG_DIR \o <<Name("sub", ""), Name("sys", ".log")>>
UserPaths == {AppLog, SysLog}

\* the deployment's output directory, <log_directory>/archives
OutputDir == Append(LOG_DIR, Name(DEFAULT_OUTPUT_DIR_NAME, ""))
AuditLogPath == Append(OutputDir, AUDIT_LOG_NAME)
ArchivePath(t) == Append(OutputDir, build_archive_name(t))

\* every regular file on disk
FilesOnDisk ==
    userFiles \cup {ArchivePath(t) : t \in DOMAIN archives}
              \cup (IF auditLog # <<>> THEN {AuditLogPath} ELSE {})

\* every directory on disk
DirsOnDisk ==
    UNION {{SubSeq(p, 1, n) : n \in 1..(Len(p) - 1)} : p \in userFiles} \cup
    (IF archives # <<>> \/ auditLog # <<>> THEN {OutputDir} ELSE {}) \cup
    (IF outDirExists THEN {OutputDir} ELSE {}) \cup {LOG_DIR}

\* path.is_dir(), on a disk holding the directories dirs
is_dir(path, dirs) == path \in dirs

\* log_directory.rglob("*"): every file and directory below log_directory
rglob(log_directory, files, dirs) ==
    {p \in files \cup dirs : IsRelativeTo(p, log_directory) /\ p # log_directory}

\* the loop of enumerate_files over the paths rglob yields
enumerate_loop(paths, dirs, log_directory, builtin_exclusions, include_patterns, exclude_patterns) ==
    {path \in paths :
        /\ ~ is_dir(path, dirs)
        /\ ~ should_exclude(path, log_directory, builtin_exclusions,
                            include_patterns, exclude_patterns)}

\* enumerate_files: the regular files below log_directory that are not excluded
enumerate_files(log_directory, output_dir, audit_log_path, include_patterns, exclude_patterns) ==
    enumerate_loop(rglob(log_directory, FilesOnDisk, DirsOnDisk), DirsOnDisk,
                   log_directory, {output_dir, audit_log_path},
                   include_patterns, exclude_patterns)

----------------------------------------------------------------------------
(* The archive writer, the audit log and the retention policy *)

\* what create_archive may hit: nothing, a PermissionError from tarfile.open,
\* a PermissionError from tar.add, or another OSError from tar.add
Faults == {"none", "open_perm", "add_perm", "add_os"}

ErrorText(fault) ==
    CASE fault \in {"open_perm", "add_perm"} -> "Permission denied"
      [] fault = "add_os" -> "Input/output error"
      [] OTHER -> ""

\* create_archive: tarfile.open(dest_archive, "w:gz") creates the file at its
\* final name, tar.add appends the files one by one (in rglob's order, which
\* the filesystem decides: `added` is what went in before a failing tar.add),
\* and leaving the with-block closes the file, also on an exception.
create_archive(arch, files, now, fault, added) ==
    CASE fault = "open_perm" ->
            [raised |-> "PermissionError", archives |-> arch]
      [] fault = "add_perm" ->
            [raised |-> "PermissionError",
             archives |-> (now :> [mtime |-> now, members |-> added, complete |-> FALSE]) @@ arch]
      [] fault = "add_os" ->
            [raised |-> "OSError",
             archives |-> (now :> [mtime |-> now, members |-> added, complete |-> FALSE]) @@ arch]
      [] OTHER ->
            [raised |-> "",
             archives |-> (now :> [mtime |-> now, members |-> files, complete |-> TRUE]) @@ arch]

\* compute_file_count_and_size: the number of members of the archive
compute_file_count(arch, t) == Cardinality(arch[t].members)

\* write_audit_line opening the log with "w" instead of "a" (a mutation)
write_audit_line_truncating(log, now, archive_name, file_count, error) ==
    << IF error # ""
       THEN [ts |-> now, archive |-> archive_name, kind |-> "error",
             files |-> 0, error |-> error]
       ELSE [ts |-> now, archive |-> archive_name, kind |-> "ok",
             files |-> file_count, error |-> ""] >>

\* write_audit_line: append one line, an error line when error is non-empty
write_audit_line(log, now, archive_name, file_count, error) ==
    Append(log,
        IF error # ""
        THEN [ts |-> now, archive |-> archive_name, kind |-> "error",
              files |-> 0, error |-> error]
        ELSE [ts |-> now, archive |-> archive_name, kind |-> "ok",
              files |-> file_count, error |-> ""])

\* the names output_dir.glob("logs_archive_*.tar.gz") matches
IsArchiveName(n) == n.base = ARCHIVE_PREFIX /\ n.ext = ARCHIVE_EXT

\* the names of the files directly in the output directory
OutDirEntries(arch, log) ==
    {build_archive_name(t) : t \in DOMAIN arch}
        \cup (IF log # <<>> THEN {AUDIT_LOG_NAME} ELSE {})

\* sorted(..., key=st_mtime): the archives (by the second of their name),
\* oldest modification first
RECURSIVE sorted_by_mtime(_, _)
sorted_by_mtime(S, arch) ==
    IF S = {} THEN <<>>
    ELSE LET first == CHOOSE t \in S : \A u \in S : arch[t].mtime <= arch[u].mtime
         IN <<first>> \o sorted_by_mtime(S \ {first}, arch)

\* Python's seq[:stop]
SliceTo(seq, stop) ==
    SubSeq(seq, 1, IF stop < 0 THEN (IF Len(seq) + stop < 0 THEN 0 ELSE Len(seq) + stop)
                   ELSE (IF stop > Len(seq) THEN Len(seq) ELSE stop))

Range(seq) == {seq[i] : i \in 1..Len(seq)}

\* to_delete_of slicing archives[:-(retention_count + 1)] (a mutation)
to_delete_keeps_one_more(archivesList, arch, now, retention_days, retention_count) ==
    IF retention_days # {}
    THEN {t \in Range(archivesList) :
            arch[t].mtime < now - (The(retention_days) * SecondsPerDay)}
    ELSE IF retention_count # {} /\ Len(archivesList) > The(retention_count)
    THEN Range(SliceTo(archivesList, 0 - (The(retention_count) + 1)))
    ELSE {}

\* to_delete_of with the cutoff retention_days seconds back, not days (a mutation)
to_delete_cutoff_in_seconds(archivesList, arch, now, retention_days, retention_count) ==
    IF retention_days # {}
    THEN {t \in Range(archivesList) : arch[t].mtime < now - The(retention_days)}
    ELSE IF retention_count # {} /\ Len(archivesList) > The(retention_count)
    THEN Range(SliceTo(archivesList, 0 - The(retention_count)))
    ELSE {}

\* to_delete_of slicing archives[-retention_count:], the newest (a mutation)
to_delete_newest(archivesList, arch, now, retention_days, retention_count) ==
    IF retention_days # {}
    THEN {t \in Range(archivesList) :
            arch[t].mtime < now - (The(retention_days) * SecondsPerDay)}
    ELSE IF retention_count # {} /\ Len(archivesList) > The(retention_count)
    THEN Range(SubSeq(archivesList, Len(archivesList) - The(retention_count) + 1,
                      Len(archivesList)))
    ELSE {}

\* the deletion set apply_retention computes from the sorted archives
to_delete_of(archivesList, arch, now, retention_days, retention_count) ==
    IF retention_days # {}
    THEN {t \in Range(archivesList) :
            arch[t].mtime < now - (The(retention_days) * SecondsPerDay)}
    ELSE IF retention_count # {} /\ Len(archivesList) > The(retention_count)
    THEN Range(SliceTo(archivesList, 0 - The(retention_count)))
    ELSE {}

\* the deletion set of the archives the glob finds in the output directory
to_delete(arch, log, now, retention_days, retention_count) ==
    to_delete_of(
        sorted_by_mtime({n.ts : n \in {e \in OutDirEntries(arch, log) : IsArchiveName(e)}}, arch),
        arch, now, retention_days, retention_count)

\* unlink_all without the dry_run test (a mutation)
unlink_all_ignoring_dry_run(arch, gone, dry_run) ==
    [to_delete |-> {[ts |-> t, mtime |-> arch[t].mtime] : t \in gone},
     archives |-> [t \in DOMAIN arch \ gone |-> arch[t]]]

\* the loop of apply_retention over the deletion set: report and, unless
\* dry_run, unlink
unlink_all(arch, gone, dry_run) ==
    [to_delete |-> {[ts |-> t, mtime |-> arch[t].mtime] : t \in gone},
     archives |-> IF dry_run THEN arch
                  ELSE [t \in DOMAIN arch \ gone |-> arch[t]]]

\* apply_retention: what it reports as deleted and the archives it leaves
apply_retention(arch, log, now, retention_days, retention_count, dry_run) ==
    unlink_all(arch, to_delete(arch, log, now, retention_days, retention_count), dry_run)

----------------------------------------------------------------------------
(* The arguments of a run *)

NoArgs ==
    [incremental |-> FALSE, log_directory |-> {LOG_DIR}, cfg_log_directory |-> {},
     output_dir |-> {},
     retention_days |-> {}, retention_count |-> {}, cfg_days |-> {}, cfg_count |-> {},
     include |-> <<>>, exclude |-> <<>>, dry_run |-> FALSE, fault |-> "none"]

\* --retention-days / --retention-count and the config file's values
Retentions ==
    {[days |-> {}, count |-> {}, cfg_days |-> {}, cfg_count |-> {}],
     [days |-> {1}, count |-> {}, cfg_days |-> {}, cfg_count |-> {}],
     [days |-> {}, count |-> {1}, cfg_days |-> {}, cfg_count |-> {}],
     [days |-> {}, count |-> {}, cfg_days |-> {0}, cfg_count |-> {2}],
     [days |-> {}, count |-> {}, cfg_days |-> {1}, cfg_count |-> {2}]}

\* --include / --exclude
NoPatterns == [include |-> <<>>, exclude |-> <<>>]
\* --include "*.tar.gz,archive.log"
IncludeArchives ==
    [include |-> << <<AnyExt(ARCHIVE_EXT)>>, <<Lit("archive", ".log")>> >>, exclude |-> <<>>]
\* --include "archives/*"
IncludeOutputDir ==
    [include |-> << <<Lit(DEFAULT_OUTPUT_DIR_NAME, ""), Star>> >>, exclude |-> <<>>]
\* --exclude "app.log"
ExcludeApp == [include |-> <<>>, exclude |-> << <<Lit("app", ".log")>> >>]
\* --include "*" --exclude "sub/*"
ExcludeSub == [include |-> << <<Star>> >>, exclude |-> << <<Lit("sub", ""), Star>> >>]

PatternArgs == {NoPatterns, IncludeArchives, ExcludeSub}

\* runs that pass the validation of main and whose archive is written
ValidArgs ==
    {[NoArgs EXCEPT !.retention_days = r.days, !.retention_count = r.count,
                    !.cfg_days = r.cfg_days, !.cfg_count = r.cfg_count,
                    !.include = p.include, !.exclude = p.exclude] :
        r \in Retentions, p \in PatternArgs}
    \cup {[NoArgs EXCEPT !.log_directory = {}, !.cfg_log_directory = {LOG_DIR}],
          [NoArgs EXCEPT !.output_dir = {OutputDir}]}

\* dry runs
DryRunArgs ==
    {[NoArgs EXCEPT !.retention_days = r.days, !.retention_count = r.count,
                    !.cfg_days = r.cfg_days, !.cfg_count = r.cfg_count,
                    !.dry_run = TRUE] : r \in Retentions}

\* runs in which create_archive fails
FailingArgs ==
    {[NoArgs EXCEPT !.retention_count = {1}, !.fault = f] : f \in Faults \ {"none"}}

\* runs main rejects: --incremental (no such option), both retention options,
\* no log directory, a log directory that does not exist, a retention value <= 0
InvalidArgs ==
    {[NoArgs EXCEPT !.incremental = TRUE],
     [NoArgs EXCEPT !.retention_days = {1}, !.retention_count = {1}],
     [NoArgs EXCEPT !.log_directory = {}],
     [NoArgs EXCEPT !.log_directory = {MISSING_DIR}],
     [NoArgs EXCEPT !.retention_days = {0}],
     [NoArgs EXCEPT !.retention_count = {0}],
     [NoArgs EXCEPT !.retention_count = {0}, !.dry_run = TRUE]}

Args == ValidArgs \cup DryRunArgs \cup FailingArgs \cup InvalidArgs

----------------------------------------------------------------------------
(* main *)

\* parse_args ends the run (SystemExit 2) on an option the parser does not
\* define and on both options of the mutually exclusive retention group
parse_args_rejects(a) ==
    \/ a.incremental
    \/ (a.retention_days # {} /\ a.retention_count # {})

\* the retention options in force: the command line's, else the config file's
\* positive retention_days, else its positive retention_count
retention_in_force(a) ==
    IF a.retention_days = {} /\ a.retention_count = {}
    THEN IF a.cfg_days # {} /\ The(a.cfg_days) > 0
         THEN [days |-> a.cfg_days, count |-> {}]
         ELSE IF a.cfg_count # {} /\ The(a.cfg_count) > 0
         THEN [days |-> {}, count |-> a.cfg_count]
         ELSE [days |-> {}, count |-> {}]
    ELSE [days |-> a.retention_days, count |-> a.retention_count]

\* a run that ends before the output directory is touched
Rejected(code) ==
    [exit |-> code, mkdir |-> FALSE, archives |-> archives, auditLog |-> auditLog,
     perm |-> FALSE,
     days |-> {}, count |-> {}, to_delete |-> {}]

\* the except-clauses with `except Exception` first: exit 1 whatever the
\* exception (a mutation of on_exception)
on_exception_exit_1(raised, arch, now, ret, text) ==
    [exit |-> 1,
     mkdir |-> TRUE, archives |-> arch,
     auditLog |-> write_audit_line(auditLog, now, build_archive_name(now), 0, text),
     perm |-> (raised = "PermissionError"),
     days |-> ret.days, count |-> ret.count, to_delete |-> {}]

\* the except-clauses without their write_audit_line (a mutation of on_exception)
on_exception_unaudited(raised, arch, now, ret, text) ==
    [exit |-> IF raised = "PermissionError" THEN 3 ELSE 1,
     mkdir |-> TRUE, archives |-> arch,
     auditLog |-> auditLog,
     perm |-> (raised = "PermissionError"),
     days |-> ret.days, count |-> ret.count, to_delete |-> {}]

\* the except-clauses of main: an error line in the audit log, exit 3 for a
\* PermissionError and exit 1 for any other exception
on_exception(raised, arch, now, ret, text) ==
    [exit |-> IF raised = "PermissionError" THEN 3 ELSE 1,
     mkdir |-> TRUE, archives |-> arch,
     auditLog |-> write_audit_line(auditLog, now, build_archive_name(now), 0, text),
     perm |-> (raised = "PermissionError"),
     days |-> ret.days, count |-> ret.count, to_delete |-> {}]

\* the try-block of main: create the archive, count its members, write the
\* audit line, apply the retention policy
after_retention(r, log, ret) ==
    [exit |-> 0, mkdir |-> TRUE, archives |-> r.archives, auditLog |-> log,
     perm |-> FALSE,
     days |-> ret.days, count |-> ret.count, to_delete |-> r.to_delete]

after_audit(arch, log, now, ret) ==
    after_retention(apply_retention(arch, log, now, ret.days, ret.count, FALSE), log, ret)

after_create(c, now, ret, text) ==
    IF c.raised # ""
    THEN on_exception(c.raised, c.archives, now, ret, text)
    ELSE after_audit(c.archives,
                     write_audit_line(auditLog, now, build_archive_name(now),
                                      compute_file_count(c.archives, now), ""),
                     now, ret)

archive_step(now, files, ret, fault, added) ==
    after_create(create_archive(archives, files, now, fault, added), now, ret, ErrorText(fault))

\* the dry-run branch of main: report the retention effect and return 0
after_dry_retention(r, ret) ==
    [exit |-> 0, mkdir |-> FALSE, archives |-> r.archives, auditLog |-> auditLog,
     perm |-> FALSE,
     days |-> ret.days, count |-> ret.count, to_delete |-> r.to_delete]

dry_run_step(now, files, ret) ==
    after_dry_retention(apply_retention(archives, auditLog, now, ret.days, ret.count, TRUE), ret)

\* the log directory main works on: the command line's, else the config's
log_dir_of(a) ==
    IF a.log_directory # {} THEN The(a.log_directory) ELSE The(a.cfg_log_directory)

\* main passes its validation
Validated(a) ==
    /\ ~ parse_args_rejects(a)
    /\ ~ (a.log_directory = {} /\ a.cfg_log_directory = {})
    /\ ~ (a.retention_days # {} /\ The(a.retention_days) <= 0)
    /\ ~ (a.retention_count # {} /\ The(a.retention_count) <= 0)
    /\ log_dir_of(a) \in DirsOnDisk

\* the files main passes to create_archive
files_of(a) ==
    LET log_dir == log_dir_of(a)
        output_dir == resolve_output_dir(log_dir, a.output_dir)
        audit_log_path == Append(output_dir, AUDIT_LOG_NAME)
    IN enumerate_files(log_dir, output_dir, audit_log_path, a.include, a.exclude)

\* main: what one run does to the output directory and what it returns
main(a, added) ==
    IF ~ Validated(a) THEN Rejected(2)
    ELSE IF a.dry_run THEN dry_run_step(clock, files_of(a), retention_in_force(a))
    ELSE archive_step(clock, files_of(a), retention_in_force(a), a.fault, added)

----------------------------------------------------------------------------
(* Actions *)

NoRun ==
    [exit |-> -1, dry_run |-> FALSE, incremental |-> FALSE, valid |-> FALSE,
     perm |-> FALSE, days |-> {}, count |-> {}, to_delete |-> {}]

Init ==
    /\ outDirExists = FALSE
    /\ userFiles = {AppLog}
    /\ archives = <<>>
    /\ auditLog = <<>>
    /\ clock = 0
    /\ last = NoRun

\* one run of main with arguments a; a failing tar.add has added `added`
Main(a, added) ==
    /\ Len(auditLog) < MaxRuns
    /\ IF Validated(a) /\ a.fault \in {"add_perm", "add_os"}
       THEN added # files_of(a) /\ added \subseteq files_of(a)
       ELSE added = {}
    /\ \E o \in {main(a, added)} :
        /\ outDirExists' = (outDirExists \/ o.mkdir)
        /\ archives' = o.archives
        /\ auditLog' = o.auditLog
        /\ last' = [exit |-> o.exit, dry_run |-> a.dry_run,
                    incremental |-> a.incremental, valid |-> Validated(a),
                    perm |-> o.perm,
                    days |-> o.days, count |-> o.count, to_delete |-> o.to_delete]
    /\ UNCHANGED <<userFiles, clock>>

\* time passes: a day (runs within the same second are runs with no Tick between)
Tick ==
    /\ clock \div SecondsPerDay < MaxDays
    /\ clock' = clock + SecondsPerDay
    /\ last' = NoRun
    /\ UNCHANGED <<userFiles, outDirExists, archives, auditLog>>

\* another program writes a log file
WriteLog(p) ==
    /\ p \notin userFiles
    /\ userFiles' = userFiles \cup {p}
    /\ last' = NoRun
    /\ UNCHANGED <<outDirExists, archives, auditLog, clock>>

Next ==
    \/ \E a \in Args, added \in SUBSET UserPaths : Main(a, added)
    \/ Tick
    \/ \E p \in UserPaths : WriteLog(p)

Spec == Init /\ [][Next]_vars

----------------------------------------------------------------------------
(* Properties *)

\* the archives apply_retention finds in a run at `clock`: those on disk
\* before the run and the one the run has just written
PreArchives == DOMAIN archives \cup {clock}
PreMtime(t) == IF t = clock THEN clock ELSE archives[t].mtime

\* the newest line of the audit log
LastLine(log) == log[Len(log)]

\* log2 is log with exactly one line appended
AppendsOne(log, log2) ==
    /\ Len(log2) = Len(log) + 1
    /\ SubSeq(log2, 1, Len(log)) = log

\* a path enumerate_files must never return
BuiltinExcluded(path) == IsRelativeTo(path, OutputDir) \/ path = AuditLogPath

AllPatterns == {NoPatterns, IncludeArchives, IncludeOutputDir, ExcludeApp, ExcludeSub}

\* C1: whatever the files on disk and whatever the include and exclude
\* patterns, enumerate_files returns no path under the output directory and
\* not the audit log; hence no archive holds an archive or the audit log.
C1_NoSelfInclusion ==
    /\ \A p \in AllPatterns, od \in {{}, {OutputDir}} :
         \A f \in enumerate_files(LOG_DIR, resolve_output_dir(LOG_DIR, od),
                                  AuditLogPath, p.include, p.exclude) :
            ~ BuiltinExcluded(f)
    /\ \A t \in DOMAIN archives : \A f \in archives[t].members : ~ BuiltinExcluded(f)

\* a run has archived log files while an earlier archive and the audit log
\* lay below the log directory
C1_Witness ==
    \E t, u \in DOMAIN archives :
        /\ u < t
        /\ archives[t].complete /\ archives[t].members # {}
        /\ ArchivePath(u) \in rglob(LOG_DIR, FilesOnDisk, DirsOnDisk)
        /\ AuditLogPath \in rglob(LOG_DIR, FilesOnDisk, DirsOnDisk)

\* C2: every archive at its final name is complete: it holds every file
\* create_archive was given.
C2_NoPartialArchive ==
    \A t \in DOMAIN archives : archives[t].complete

\* C3: a run in incremental mode exits 0 and leaves the complete archive of
\* the matched files.
C3_IncrementalRunArchives ==
    last.incremental =>
        /\ last.exit = 0
        /\ clock \in DOMAIN archives
        /\ archives[clock].complete

C6_DryRunFrame ==
    /\ [](last.dry_run /\ last.valid => last.exit = 0)
    /\ [][last'.dry_run =>
            /\ outDirExists' = outDirExists
            /\ archives' = archives
            /\ auditLog' = auditLog
            /\ userFiles' = userFiles]_vars

\* a dry run has reported archives to delete, and they are still there
C6_Witness ==
    /\ last.dry_run /\ last.exit = 0
    /\ last.to_delete # {}
    /\ \A x \in last.to_delete : x.ts \in DOMAIN archives

C10_RetentionKeepsNewArchive ==
    /\ []((last.exit = 0 /\ ~ last.dry_run /\ (last.days # {} \/ last.count # {})) =>
            /\ clock \in DOMAIN archives
            /\ archives[clock].complete
            /\ auditLog # <<>>
            /\ LastLine(auditLog).kind = "ok"
            /\ LastLine(auditLog).archive = build_archive_name(clock))
    /\ [][(last' # NoRun /\ last'.exit # 0) =>
            \A t \in DOMAIN archives : t \in DOMAIN archives']_vars

\* retention has deleted an archive and the run's own archive is there
C10_Witness ==
    /\ last.exit = 0 /\ ~ last.dry_run
    /\ last.to_delete # {}
    /\ clock \in DOMAIN archives
    /\ \A x \in last.to_delete : x.ts # clock

====
